---- MODULE Spec2Model ----
(***************************************************************************)
(* clean-env: resolution of the project configuration (lib/config-file.js) *)
(* and the environment policy check of the command line tool               *)
(* (bin/clean-env.js).                                                     *)
(*                                                                         *)
(* JavaScript values are tagged records [t, v]; a plain object is a        *)
(* function from its own keys to values, so a key that is not declared is  *)
(* a key outside DOMAIN.  A file on disk is described by what stat, read   *)
(* and each parser do with it.                                             *)
(***************************************************************************)
EXTENDS Naturals, Sequences, FiniteSets, TLC

VARIABLES
    disk,           \* the root directory: candidate filename -> file state
    defaultConfig,  \* the DEFAULT_CONFIG object held by the loaded module
    pc,             \* position of the caller / of the command line tool
    result,         \* outcome of the latest getConfig call
    envFiles,       \* dotenv files under the root: relative path -> contents
    env0,           \* history: process.env as the process started
    env,            \* process.env
    loaded,         \* whether dotenv.config was called in this run
    missingRequired,
    foundExcluded,
    asked,          \* whether the question was put on the terminal
    answer,         \* the line read from standard input
    exitCode,
    hasMerged       \* history: some earlier getConfig call merged a user configuration

cliVars == <<envFiles, env0, env, loaded, missingRequired, foundExcluded, asked, answer, exitCode>>
vars == <<disk, defaultConfig, pc, result, envFiles, env0, env, loaded,
          missingRequired, foundExcluded, asked, answer, exitCode, hasMerged>>

----------------------------------------------------------------------------
(* JavaScript values *)

Str(s) == [t |-> "str", v |-> s]
Bool(b) == [t |-> "bool", v |-> b]
Arr(a) == [t |-> "arr", v |-> a]
Obj(m) == [t |-> "map", v |-> m]
Null == [t |-> "null", v |-> ""]

EmptyObj == [k \in {} |-> Null]

\* JavaScript truthiness, as used by `||` and by `if (config.dotenv)`.
Truthy(x) ==
    CASE x.t = "null" -> FALSE
      [] x.t = "bool" -> x.v
      [] x.t = "str" -> x.v # ""
      [] OTHER -> TRUE

----------------------------------------------------------------------------
(* Built-in defaults *)

DEFAULT_TRANSLATIONS ==
    [missingRequired |-> Str("Clean ENV did not find the following required ENV variables."),
     foundExcluded |-> Str("Clean ENV has found the following excluded ENV variables in the ENV."),
     errorStatement |-> Str("Your ENV is not in a clean state."),
     errorQuestion |-> Str("Are you sure you want to continue with the build? (y)"),
     yes |-> Str("y")]

DEFAULT_CONFIG ==
    [required |-> Arr(<<>>),
     excluded |-> Arr(<<>>),
     dotenv |-> Str(".env"),
     translations |-> Obj(DEFAULT_TRANSLATIONS)]

----------------------------------------------------------------------------
(* deepmerge, as called by getConfig: merge(DEFAULT_CONFIG, loadedConfig) *)

isMergeableObject(x) == x.t \in {"map", "arr"}

RECURSIVE deepmerge(_, _)
mergeObject(target, source) ==
    [k \in (DOMAIN target) \cup (DOMAIN source) |->
        IF k \notin DOMAIN source THEN target[k]
        ELSE IF k \in DOMAIN target /\ isMergeableObject(source[k])
             THEN deepmerge(target[k], source[k])
             ELSE source[k]]

deepmerge(target, source) ==
    IF (source.t = "arr") # (target.t = "arr") THEN source
    ELSE IF source.t = "arr" THEN Arr(target.v \o source.v)
    ELSE IF target.t # "map" THEN source
    ELSE Obj(mergeObject(target.v, source.v))

\* The result of merge(target, source) for two plain objects.
merge(target, source) == mergeObject(target, source)

\* Variant: the merge writes into its first argument (Object.assign style).
MergeAssignsTarget(target, source) == mergeObject(target, source)

\* The target object after merge(target, source): deepmerge builds a new
\* destination object and leaves its arguments alone.
TargetAfterMerge(target, source) == target

----------------------------------------------------------------------------
(* Files *)

CONFIG_FILES ==
    <<".clean-env.js", ".clean-env.yaml", ".clean-env.yml", ".clean-env.json",
      "package.json">>

FileNames == {CONFIG_FILES[i] : i \in DOMAIN CONFIG_FILES}

\* path.extname and path.basename of path.join(directory, filename)
extname(filePath) ==
    CASE filePath = ".clean-env.js" -> ".js"
      [] filePath = ".clean-env.yaml" -> ".yaml"
      [] filePath = ".clean-env.yml" -> ".yml"
      [] filePath = ".clean-env.json" -> ".json"
      [] filePath = "package.json" -> ".json"

basename(filePath) == filePath

\* stat: "ENOENT" (no such entry), "EOTHER" (statSync fails otherwise, e.g.
\* ELOOP or EACCES), "dir" (an entry that is no regular file), "file".
\* read: whether readFileSync succeeds.  body: what the text is to a parser.
Absent == [stat |-> "ENOENT", read |-> "none", body |-> "none", doc |-> EmptyObj]
StatFails == [stat |-> "EOTHER", read |-> "none", body |-> "none", doc |-> EmptyObj]
NotAFile == [stat |-> "dir", read |-> "none", body |-> "none", doc |-> EmptyObj]
Unreadable == [stat |-> "file", read |-> "EACCES", body |-> "none", doc |-> EmptyObj]
Malformed == [stat |-> "file", read |-> "ok", body |-> "malformed", doc |-> EmptyObj]
EmptyFile == [stat |-> "file", read |-> "ok", body |-> "empty", doc |-> EmptyObj]
Doc(m) == [stat |-> "file", read |-> "ok", body |-> "doc", doc |-> m]

----------------------------------------------------------------------------
(* Outcomes of a call: a returned value or a thrown error with its message, *)
(* a sequence of parts (literal text, or a file path under the directory).  *)

Text(s) == [k |-> "text", v |-> s]
PathOf(filename) == [k |-> "path", v |-> filename]

Return(x) == [ok |-> TRUE, value |-> x, message |-> <<>>]
Throw(msg) == [ok |-> FALSE, value |-> Null, message |-> msg]

\* e.message = `Cannot read config file: ${filePath}\nError: ${e.message}`
Rethrow(filePath, e) ==
    Throw(<<Text("Cannot read config file: "), PathOf(filePath), Text("\nError: ")>>
          \o e.message)

\* fs.readFileSync(filePath, 'utf8') with the BOM removed: the text, here the
\* file state the parsers inspect.
readFile(filePath, d) ==
    IF d[filePath].read = "ok" THEN Return(d[filePath])
    ELSE Throw(<<Text("EACCES: permission denied, open")>>)

JSONparse(f) ==
    CASE f.body = "doc" -> Return(Obj(f.doc))
      [] f.body = "empty" -> Throw(<<Text("Unexpected end of JSON input")>>)
      [] OTHER -> Throw(<<Text("Unexpected token in JSON")>>)

\* js-yaml gives undefined for an empty document.
yamlSafeLoad(f) ==
    CASE f.body = "doc" -> Return(Obj(f.doc))
      [] f.body = "empty" -> Return(Null)
      [] OTHER -> Throw(<<Text("YAMLException: bad indentation")>>)

\* import-fresh: the module's exports, evaluated anew on every call; a file
\* that assigns nothing exports {}.
importFresh(filePath, d) ==
    LET f == d[filePath] IN
    CASE f.read # "ok" -> Throw(<<Text("EACCES: permission denied, open")>>)
      [] f.body = "doc" -> Return(Obj(f.doc))
      [] f.body = "empty" -> Return(Obj(EmptyObj))
      [] OTHER -> Throw(<<Text("SyntaxError: Unexpected token")>>)

----------------------------------------------------------------------------
(* Loaders *)

loadYAMLConfigFile(filePath, d) ==
    LET text == readFile(filePath, d)
        parsed == IF text.ok THEN yamlSafeLoad(text.value) ELSE text
    IN  IF parsed.ok
        THEN Return(IF Truthy(parsed.value) THEN parsed.value ELSE Obj(EmptyObj))
        ELSE Rethrow(filePath, parsed)

\* Variant: a failure to read or parse is swallowed and reported as "nothing".
LoadJSONSwallowsError(filePath, d) ==
    LET text == readFile(filePath, d)
        parsed == IF text.ok THEN JSONparse(text.value) ELSE text
    IN  IF parsed.ok THEN parsed ELSE Return(Null)

loadJSONConfigFile(filePath, d) ==
    LET text == readFile(filePath, d)
        parsed == IF text.ok THEN JSONparse(text.value) ELSE text
    IN  IF parsed.ok THEN parsed ELSE Rethrow(filePath, parsed)

loadJSConfigFile(filePath, d) ==
    LET exported == importFresh(filePath, d)
    IN  IF exported.ok THEN exported ELSE Rethrow(filePath, exported)

\* loadJSONConfigFile(filePath)['clean-env'] || null
loadPackageJSONConfigFile(filePath, d) ==
    LET json == loadJSONConfigFile(filePath, d)
    IN  IF ~json.ok THEN Rethrow(filePath, json)
        ELSE IF "clean-env" \in DOMAIN json.value.v /\ Truthy(json.value.v["clean-env"])
        THEN Return(json.value.v["clean-env"])
        ELSE Return(Null)

\* Variant: the '.yml' extension is missing from the switch.
LoadConfigFileWithoutYml(filePath, d) ==
    CASE extname(filePath) = ".js" -> loadJSConfigFile(filePath, d)
      [] extname(filePath) = ".json" ->
            IF basename(filePath) = "package.json"
            THEN loadPackageJSONConfigFile(filePath, d)
            ELSE loadJSONConfigFile(filePath, d)
      [] extname(filePath) = ".yaml" -> loadYAMLConfigFile(filePath, d)
      [] OTHER -> Return(Obj(EmptyObj))

loadConfigFile(filePath, d) ==
    CASE extname(filePath) = ".js" -> loadJSConfigFile(filePath, d)
      [] extname(filePath) = ".json" ->
            IF basename(filePath) = "package.json"
            THEN loadPackageJSONConfigFile(filePath, d)
            ELSE loadJSONConfigFile(filePath, d)
      [] extname(filePath) \in {".yaml", ".yml"} -> loadYAMLConfigFile(filePath, d)
      [] OTHER -> Return(Obj(EmptyObj))

----------------------------------------------------------------------------
(* Discovery *)

\* fs.statSync(filename).isFile(); ENOENT is "no", any other failure is thrown.
isExistingFile(filename, d) ==
    CASE d[filename].stat = "file" -> Return(Bool(TRUE))
      [] d[filename].stat = "dir" -> Return(Bool(FALSE))
      [] d[filename].stat = "ENOENT" -> Return(Bool(FALSE))
      [] OTHER -> Throw(<<Text("stat failed: "), PathOf(filename)>>)

\* Array.prototype.find from index i on: the candidates tested so far, and
\* the first one the test accepts (or null), or the error the test threw.
RECURSIVE FindFrom(_, _, _)
FindFrom(i, d, tested) ==
    IF i > Len(CONFIG_FILES)
    THEN [ok |-> TRUE, value |-> Null, message |-> <<>>, stats |-> tested]
    ELSE LET name == CONFIG_FILES[i]
             r == isExistingFile(name, d)
         IN  IF ~r.ok
             THEN [ok |-> FALSE, value |-> Null, message |-> r.message,
                   stats |-> Append(tested, name)]
             ELSE IF r.value.v
             THEN [ok |-> TRUE, value |-> Str(name), message |-> <<>>,
                   stats |-> Append(tested, name)]
             ELSE FindFrom(i + 1, d, Append(tested, name))

\* Variant: the last existing candidate wins.
RECURSIVE FindLastFrom(_, _, _)
FindLastFrom(i, d, tested) ==
    IF i < 1
    THEN [ok |-> TRUE, value |-> Null, message |-> <<>>, stats |-> tested]
    ELSE LET name == CONFIG_FILES[i]
             r == isExistingFile(name, d)
         IN  IF ~r.ok
             THEN [ok |-> FALSE, value |-> Null, message |-> r.message,
                   stats |-> Append(tested, name)]
             ELSE IF r.value.v
             THEN [ok |-> TRUE, value |-> Str(name), message |-> <<>>,
                   stats |-> Append(tested, name)]
             ELSE FindLastFrom(i - 1, d, Append(tested, name))

GetFilenameLastMatch(d) == FindLastFrom(Len(CONFIG_FILES), d, <<>>)

getFilenameForDirectory(d) == FindFrom(1, d, <<>>)

----------------------------------------------------------------------------
(* getConfig *)

NoResult ==
    [status |-> "none", config |-> EmptyObj, message |-> <<>>, stats |-> <<>>,
     reads |-> <<>>, merged |-> <<>>, defaultAfter |-> EmptyObj]

\* Variant: the loaded value is merged without the null test.
GetConfigWithoutNullTest(d, dflt) ==
    LET configFile == getFilenameForDirectory(d)
        base == [NoResult EXCEPT !.stats = configFile.stats, !.defaultAfter = dflt]
    IN  IF ~configFile.ok
        THEN [base EXCEPT !.status = "error", !.message = configFile.message]
        ELSE IF configFile.value.t = "null"
        THEN [base EXCEPT !.status = "ok", !.config = dflt]
        ELSE LET loadedConfig == loadConfigFile(configFile.value.v, d)
                 read == [base EXCEPT !.reads = <<configFile.value.v>>]
             IN  IF ~loadedConfig.ok
                 THEN [read EXCEPT !.status = "error", !.message = loadedConfig.message]
                 ELSE IF loadedConfig.value.t = "null"
                 THEN [read EXCEPT !.status = "error",
                                   !.merged = <<loadedConfig.value>>,
                                   !.message = <<Text("Cannot convert undefined or null to object")>>]
                 ELSE [read EXCEPT !.status = "ok",
                                   !.merged = <<loadedConfig.value>>,
                                   !.config = merge(dflt, loadedConfig.value.v),
                                   !.defaultAfter = TargetAfterMerge(dflt, loadedConfig.value.v)]

\* getConfig(directory) with the module's DEFAULT_CONFIG object being dflt:
\* what the call returns or throws, which candidates it tested and read, what
\* it handed to merge, and the DEFAULT_CONFIG object afterwards.
getConfig(d, dflt) ==
    LET configFile == getFilenameForDirectory(d)
        base == [NoResult EXCEPT !.stats = configFile.stats, !.defaultAfter = dflt]
    IN  IF ~configFile.ok
        THEN [base EXCEPT !.status = "error", !.message = configFile.message]
        ELSE IF configFile.value.t = "null"
        THEN [base EXCEPT !.status = "ok", !.config = dflt]
        ELSE LET loadedConfig == loadConfigFile(configFile.value.v, d)
                 read == [base EXCEPT !.reads = <<configFile.value.v>>]
             IN  IF ~loadedConfig.ok
                 THEN [read EXCEPT !.status = "error", !.message = loadedConfig.message]
                 ELSE IF loadedConfig.value.t = "null"
                 THEN [read EXCEPT !.status = "ok", !.config = dflt]
                 ELSE [read EXCEPT !.status = "ok",
                                   !.merged = <<loadedConfig.value>>,
                                   !.config = merge(dflt, loadedConfig.value.v),
                                   !.defaultAfter = TargetAfterMerge(dflt, loadedConfig.value.v)]

----------------------------------------------------------------------------
(* The user configurations and file contents the model draws from *)

OnlyRequiredX == [required |-> Arr(<<"X">>)]

PolicyABC ==
    [required |-> Arr(<<"A", "B">>), excluded |-> Arr(<<"C">>),
     translations |-> Obj([yes |-> Str("yes")])]

\* YAML `translations:` with nothing under it
NullTranslations == [excluded |-> Arr(<<"C">>), translations |-> Null]

DotenvFalse == [required |-> Arr(<<"B">>), dotenv |-> Bool(FALSE)]
DotenvEmptyString == [required |-> Arr(<<"B">>), dotenv |-> Str("")]
DotenvNull == [excluded |-> Arr(<<"B">>), dotenv |-> Null]
DotenvOtherPath == [required |-> Arr(<<"B">>), dotenv |-> Str("config/.env")]
DotenvTrue == [required |-> Arr(<<"B">>), dotenv |-> Bool(TRUE)]

ResolverConfigs == {EmptyObj, OnlyRequiredX, PolicyABC, NullTranslations, DotenvFalse}

UserConfigs ==
    ResolverConfigs \cup {DotenvEmptyString, DotenvNull, DotenvOtherPath, DotenvTrue}

\* A package.json without and with the key clean-env.
ManifestWithoutKey == [name |-> Str("project")]
Manifest(cfg) == ("clean-env" :> Obj(cfg)) @@ ManifestWithoutKey

\* What a candidate of the given name may hold when it declares one of cfgs.
Documents(name, cfgs) ==
    IF name = "package.json"
    THEN {Doc(ManifestWithoutKey)} \cup {Doc(Manifest(c)) : c \in cfgs}
    ELSE {Doc(c) : c \in cfgs}

FileStates(name, cfgs) ==
    {Absent, StatFails, NotAFile, Unreadable, Malformed, EmptyFile}
        \cup Documents(name, cfgs)

NoFiles == [name \in FileNames |-> Absent]

Present(d) == {name \in FileNames : d[name] # Absent}

\* At most MaxPresent candidate names are present in the directory at once.
MaxPresent == 2

----------------------------------------------------------------------------
(* A process that loads the module once and resolves repeatedly, while the *)
(* directory changes between calls                                         *)

NoLine == [lead |-> 0, core |-> "", trail |-> 0]
EnvNames == {"A", "B", "C"}
EnvPaths == {".env", "config/.env"}
NoEnvFile == [exists |-> FALSE, vars |-> EmptyObj]

CliIdle ==
    /\ envFiles = [p \in EnvPaths |-> NoEnvFile]
    /\ env0 = [n \in EnvNames |-> Null]
    /\ env = env0
    /\ loaded = FALSE
    /\ missingRequired = <<>>
    /\ foundExcluded = <<>>
    /\ asked = FALSE
    /\ answer = NoLine
    /\ exitCode = 0

Init ==
    /\ disk = NoFiles
    /\ defaultConfig = DEFAULT_CONFIG
    /\ pc = "idle"
    /\ result = NoResult
    /\ hasMerged = FALSE
    /\ CliIdle

\* The environment creates, replaces or removes one candidate.
ChangeFile ==
    \E name \in FileNames :
      \E f \in FileStates(name, ResolverConfigs) :
        /\ f # disk[name]
        /\ Cardinality(Present([disk EXCEPT ![name] = f])) <= MaxPresent
        /\ disk' = [disk EXCEPT ![name] = f]
        /\ pc' = "idle"
        /\ result' = NoResult
        /\ UNCHANGED <<defaultConfig, hasMerged>>
        /\ UNCHANGED cliVars

\* A caller runs getConfig(directory).
GetConfig ==
    /\ pc = "idle"
    /\ result' = getConfig(disk, defaultConfig)
    /\ defaultConfig' = result'.defaultAfter
    /\ hasMerged' = (hasMerged \/ result'.merged # <<>>)
    /\ pc' = "returned"
    /\ UNCHANGED disk
    /\ UNCHANGED cliVars

Next == ChangeFile \/ GetConfig

Spec == Init /\ [][Next]_vars

----------------------------------------------------------------------------
(* The command line tool, bin/clean-env.js *)

\* A line of text: `lead` blanks, a word without blanks at its ends, `trail`
\* blanks.
Line(lead, core, trail) == [lead |-> lead, core |-> core, trail |-> trail]

\* line === x for a JavaScript value x
StrictEquals(line, x) ==
    x.t = "str" /\ line.lead = 0 /\ line.trail = 0 /\ line.core = x.v

\* String.prototype.trim
Trim(line) == [line EXCEPT !.lead = 0, !.trail = 0]

EnvFile(m) == [exists |-> TRUE, vars |-> m]

\* process.env[key]
EnvGet(e, key) == IF key \in DOMAIN e THEN e[key] ELSE Null

\* dotenv.config({path}): every variable of the file that process.env does
\* not have yet is set; a file that cannot be read changes nothing.
dotenvConfig(e, files, path) ==
    IF path \notin DOMAIN files \/ ~files[path].exists THEN e
    ELSE LET fileVars == files[path].vars IN
         [n \in (DOMAIN e) \cup (DOMAIN fileVars) |->
            IF EnvGet(e, n).t # "null" THEN e[n] ELSE
            IF n \in DOMAIN fileVars THEN Str(fileVars[n]) ELSE e[n]]

\* path.resolve(rootDir, config.dotenv), as a path relative to the root
pathResolve(p) == p

\* Variant: only the boolean false switches the load off.
LoadUnlessFalse(config) == config.dotenv # Bool(FALSE)

\* if (config.dotenv)
ShouldLoadDotenv(config) == Truthy(config.dotenv)

\* Variant: an empty value counts as missing.
MissingWhenFalsy(config, e) ==
    LET keys == SelectSeq(config.required.v, LAMBDA key : ~Truthy(EnvGet(e, key)))
    IN  [i \in DOMAIN keys |-> [name |-> keys[i]]]

\* config.required.filter(key => process.env[key] == null).map(...)
MissingRequiredOf(config, e) ==
    LET keys == SelectSeq(config.required.v, LAMBDA key : EnvGet(e, key).t = "null")
    IN  [i \in DOMAIN keys |-> [name |-> keys[i]]]

\* config.excluded.filter(key => process.env[key] != null).map(...)
FoundExcludedOf(config, e) ==
    LET keys == SelectSeq(config.excluded.v, LAMBDA key : EnvGet(e, key).t # "null")
    IN  [i \in DOMAIN keys |-> [name |-> keys[i], value |-> EnvGet(e, keys[i]).v]]

\* Variant: the answer is trimmed before the comparison.
AnswerAcceptedTrimmed(line, config) ==
    StrictEquals(Trim(line), config.translations.v.yes)

\* answer === config.translations.yes
AnswerAccepted(line, config) == StrictEquals(line, config.translations.v.yes)

CliDirectories ==
    {NoFiles, [NoFiles EXCEPT ![".clean-env.json"] = Malformed]}
      \cup UNION {{[NoFiles EXCEPT ![name] = f] : f \in Documents(name, UserConfigs)}
                    : name \in FileNames}

EnvValues == {Null, Str(""), Str("1")}

\* blanks before and after the answer's word
MaxPad == 1
AnswerWords == {"y", "Y", "yes", "n", ""}
Answers == {Line(l, w, t) : l \in 0..MaxPad, w \in AnswerWords, t \in 0..MaxPad}

InitCli ==
    /\ disk \in CliDirectories
    /\ defaultConfig = DEFAULT_CONFIG
    /\ pc = "start"
    /\ result = NoResult
    /\ hasMerged = FALSE
    /\ envFiles \in [EnvPaths -> {NoEnvFile, EnvFile([B |-> "2"])}]
    /\ env0 \in [EnvNames -> EnvValues]
    /\ env = env0
    /\ loaded = FALSE
    /\ missingRequired = <<>>
    /\ foundExcluded = <<>>
    /\ asked = FALSE
    /\ answer = NoLine
    /\ exitCode = 0

\* const config = configFile.getConfig(rootDir); an error thrown here ends
\* the process with status 1.
Start ==
    /\ pc = "start"
    /\ result' = getConfig(disk, defaultConfig)
    /\ defaultConfig' = result'.defaultAfter
    /\ hasMerged' = (result'.merged # <<>>)
    /\ IF result'.status = "error"
       THEN pc' = "threw:getConfig" /\ exitCode' = 1
       ELSE pc' = "configured" /\ exitCode' = exitCode
    /\ UNCHANGED <<disk, envFiles, env0, env, loaded, missingRequired,
                   foundExcluded, asked, answer>>

\* if (config.dotenv) dotenv.config({path: path.resolve(rootDir, config.dotenv)})
\* path.resolve throws a TypeError for an argument that is no string.
LoadDotenv ==
    /\ pc = "configured"
    /\ IF ~ShouldLoadDotenv(result.config)
       THEN pc' = "envReady" /\ UNCHANGED <<env, loaded, exitCode>>
       ELSE IF result.config.dotenv.t # "str"
       THEN pc' = "threw:dotenv" /\ exitCode' = 1 /\ UNCHANGED <<env, loaded>>
       ELSE /\ env' = dotenvConfig(env, envFiles, pathResolve(result.config.dotenv.v))
            /\ loaded' = TRUE
            /\ pc' = "envReady"
            /\ UNCHANGED exitCode
    /\ UNCHANGED <<disk, defaultConfig, result, hasMerged, envFiles, env0,
                   missingRequired, foundExcluded, asked, answer>>

\* the two filters over config.required and config.excluded
Evaluate ==
    /\ pc = "envReady"
    /\ missingRequired' = MissingRequiredOf(result.config, env)
    /\ foundExcluded' = FoundExcludedOf(result.config, env)
    /\ pc' = "evaluated"
    /\ UNCHANGED <<disk, defaultConfig, result, hasMerged, envFiles, env0, env,
                   loaded, asked, answer, exitCode>>

\* The two tables, then check(): with nothing to report the script ends and
\* the process exits 0; otherwise the messages of config.translations are
\* printed (a TypeError when translations is null) and the question is asked.
Report ==
    /\ pc = "evaluated"
    /\ IF missingRequired = <<>> /\ foundExcluded = <<>>
       THEN pc' = "exited" /\ exitCode' = 0 /\ asked' = asked
       ELSE IF result.config.translations.t = "null"
       THEN pc' = "threw:report" /\ exitCode' = 1 /\ asked' = asked
       ELSE pc' = "asking" /\ asked' = TRUE /\ exitCode' = exitCode
    /\ UNCHANGED <<disk, defaultConfig, result, hasMerged, envFiles, env0, env,
                   loaded, missingRequired, foundExcluded, answer>>

\* The line arrives: rl.close(), then process.exit(0) or process.exit(1).
Answer ==
    /\ pc = "asking"
    /\ \E line \in Answers :
        /\ answer' = line
        /\ exitCode' = IF AnswerAccepted(line, result.config) THEN 0 ELSE 1
    /\ pc' = "exited"
    /\ UNCHANGED <<disk, defaultConfig, result, hasMerged, envFiles, env0, env,
                   loaded, missingRequired, foundExcluded, asked>>

NextCli == Start \/ LoadDotenv \/ Evaluate \/ Report \/ Answer

SpecCli == InitCli /\ [][NextCli]_vars

----------------------------------------------------------------------------
(* Properties of the resolution *)

Index(name) == CHOOSE i \in DOMAIN CONFIG_FILES : CONFIG_FILES[i] = name

IsRegularFile(d, name) == d[name].stat = "file"

\* The first candidate, in the order of CONFIG_FILES, that is a regular file.
HasRegularFile(d) == \E name \in FileNames : IsRegularFile(d, name)
FirstRegularFile(d) ==
    IF ~HasRegularFile(d) THEN "none"
    ELSE CHOOSE name \in FileNames :
            /\ IsRegularFile(d, name)
            /\ \A other \in FileNames :
                  IsRegularFile(d, other) => Index(name) <= Index(other)

\* Some candidate that discovery has to test cannot be tested: its stat fails
\* with an error other than ENOENT before a regular file is found.
StatErrorInTheWay(d) ==
    \E name \in FileNames :
        /\ d[name].stat = "EOTHER"
        /\ \A other \in FileNames :
              IsRegularFile(d, other) => Index(name) < Index(other)

ExpectedReads(d) == IF HasRegularFile(d) THEN <<FirstRegularFile(d)>> ELSE <<>>

\* C1 as stated: getConfig reads exactly the first candidate that exists as a
\* regular file (none when there is none), for every directory.
C1_AsStated == pc = "returned" => result.reads = ExpectedReads(disk)

\* C1, amended: getConfig reads exactly the first candidate that is a regular
\* file and no later one, unless the stat of a candidate before it (or of any
\* candidate, when none is a regular file) fails with an error other than
\* ENOENT; then getConfig throws that error and reads no candidate at all.
C1_FirstMatchWins ==
    pc = "returned" =>
        IF StatErrorInTheWay(disk)
        THEN result.status = "error" /\ result.reads = <<>>
        ELSE result.reads = ExpectedReads(disk)

\* A call that read the first of two differing regular candidates.
C1_Witness ==
    /\ pc = "returned"
    /\ \E first, later \in FileNames :
          /\ Index(first) < Index(later)
          /\ disk[first].body = "doc" /\ disk[later].body = "doc"
          /\ disk[first].doc # disk[later].doc
          /\ result.reads = <<first>>
          /\ result.status = "ok"

\* The underlying failure of reading or parsing a candidate, if any, as the
\* file system and the parser of its format report it.
ParseOf(name, d) ==
    CASE extname(name) = ".js" -> importFresh(name, d)
      [] extname(name) = ".json" -> JSONparse(d[name])
      [] OTHER -> yamlSafeLoad(d[name])
UnderlyingOutcome(name, d) ==
    IF d[name].read # "ok" THEN readFile(name, d) ELSE ParseOf(name, d)

Selected(d) == ~StatErrorInTheWay(d) /\ HasRegularFile(d)

Contains(message, part) == \E i \in DOMAIN message : message[i] = part
ContainsAll(message, parts) == \A j \in DOMAIN parts : Contains(message, parts[j])

\* C2: when the selected candidate cannot be read or parsed, getConfig throws
\* an error whose message names that file's path and carries the original
\* error text, having read no other candidate; it returns no configuration.
C2_LoadFailureIsFatal ==
    (/\ pc = "returned"
     /\ Selected(disk)
     /\ ~UnderlyingOutcome(FirstRegularFile(disk), disk).ok)
    => /\ result.status = "error"
       /\ result.config = EmptyObj
       /\ result.reads = <<FirstRegularFile(disk)>>
       /\ Contains(result.message, PathOf(FirstRegularFile(disk)))
       /\ ContainsAll(result.message,
                      UnderlyingOutcome(FirstRegularFile(disk), disk).message)

\* A malformed .clean-env.json in front of a package.json that holds a
\* configuration: the call failed.
C2_Witness ==
    /\ pc = "returned"
    /\ disk[".clean-env.json"] = Malformed
    /\ disk["package.json"] = Doc(Manifest(OnlyRequiredX))
    /\ result.reads = <<".clean-env.json">>
    /\ result.status = "error"

NoRegularCandidate(d) == ~HasRegularFile(d)

\* C5 as stated: a directory without a regular candidate file resolves to the
\* built-in defaults without error, and no resolution changes the defaults.
C5_AsStated ==
    /\ defaultConfig = DEFAULT_CONFIG
    /\ (pc = "returned" /\ NoRegularCandidate(disk))
         => (result.status = "ok" /\ result.config = DEFAULT_CONFIG)

\* C5, amended: a directory without a regular candidate file, and in which no
\* candidate's stat fails with an error other than ENOENT, resolves to exactly
\* the built-in defaults without error, also after earlier calls that merged
\* user configurations; no resolution changes the built-in defaults.
C5_DefaultsWhenNoCandidate ==
    /\ defaultConfig = DEFAULT_CONFIG
    /\ (pc = "returned" /\ NoRegularCandidate(disk) /\ ~StatErrorInTheWay(disk))
         => (result.status = "ok" /\ result.config = DEFAULT_CONFIG)

\* A call on a directory without candidates, after a call that merged.
C5_Witness ==
    /\ pc = "returned"
    /\ hasMerged
    /\ disk = NoFiles
    /\ result.status = "ok"
    /\ result.config = DEFAULT_CONFIG

\* The selected candidate carries no configuration.
CarriesNoConfiguration(name, d) ==
    \/ extname(name) \in {".yaml", ".yml"} /\ d[name] = EmptyFile
    \/ /\ name = "package.json"
       /\ d[name].body = "doc"
       /\ "clean-env" \notin DOMAIN d[name].doc

Outcome(r) == [status |-> r.status, config |-> r.config, message |-> r.message]

\* C6: an empty YAML document, and a package.json without the key clean-env,
\* resolve to what a directory without any candidate resolves to, without
\* error, and merge is never handed a null.
C6_EmptySourceIsNoSource ==
    /\ \A i \in DOMAIN result.merged : result.merged[i].t # "null"
    /\ (/\ pc = "returned"
        /\ Selected(disk)
        /\ CarriesNoConfiguration(FirstRegularFile(disk), disk))
       => /\ result.status = "ok"
          /\ Outcome(result) = Outcome(getConfig(NoFiles, defaultConfig))

C6_Witness ==
    /\ pc = "returned"
    /\ disk[".clean-env.yml"] = EmptyFile
    /\ result.reads = <<".clean-env.yml">>
    /\ result.merged = <<Obj(EmptyObj)>>
    /\ result.config = DEFAULT_CONFIG

C6_WitnessManifest ==
    /\ pc = "returned"
    /\ disk["package.json"] = Doc(ManifestWithoutKey)
    /\ result.reads = <<"package.json">>
    /\ result.merged = <<>>
    /\ result.config = DEFAULT_CONFIG

\* The candidate declares only required: ["X"], in the way of its format.
DeclaresOnlyRequiredX(name, d) ==
    d[name] = (IF name = "package.json" THEN Doc(Manifest(OnlyRequiredX))
               ELSE Doc(OnlyRequiredX))

\* C7: in each of the five formats, a source declaring only required: ["X"]
\* resolves to required = ["X"] with excluded, dotenv and translations at
\* their defaults.
C7_MinimalConfigInEveryFormat ==
    \A name \in FileNames :
        (/\ pc = "returned"
         /\ Selected(disk)
         /\ FirstRegularFile(disk) = name
         /\ DeclaresOnlyRequiredX(name, disk))
        => /\ result.status = "ok"
           /\ DOMAIN result.config = DOMAIN DEFAULT_CONFIG
           /\ result.config.required = Arr(<<"X">>)
           /\ result.config.excluded = DEFAULT_CONFIG.excluded
           /\ result.config.dotenv = DEFAULT_CONFIG.dotenv
           /\ result.config.translations = DEFAULT_CONFIG.translations

C7_Witness ==
    /\ pc = "returned"
    /\ FirstRegularFile(disk) = ".clean-env.yml"
    /\ DeclaresOnlyRequiredX(".clean-env.yml", disk)
    /\ result.status = "ok"
    /\ result.config.required = Arr(<<"X">>)

\* The configuration the selected candidate declares.
DeclaredConfig(name, d) ==
    IF name = "package.json" THEN d[name].doc["clean-env"].v ELSE d[name].doc

TranslationKeys == DOMAIN DEFAULT_TRANSLATIONS

\* C8 as stated: every returned configuration has a translations mapping with
\* all five message keys, whatever the user declares under translations, and
\* the keys the user does not override keep their defaults.
C8_AsStated ==
    (pc = "returned" /\ result.status = "ok")
    => /\ result.config.translations.t = "map"
       /\ TranslationKeys \subseteq DOMAIN result.config.translations.v
       /\ \A key \in TranslationKeys :
             LET name == FirstRegularFile(disk)
                 overridden ==
                     /\ result.merged # <<>>
                     /\ "translations" \in DOMAIN DeclaredConfig(name, disk)
                     /\ DeclaredConfig(name, disk).translations.t = "map"
                     /\ key \in DOMAIN DeclaredConfig(name, disk).translations.v
             IN  ~overridden
                 => result.config.translations.v[key] = DEFAULT_TRANSLATIONS[key]

----------------------------------------------------------------------------
(* Properties of the command line tool *)

Evaluated == pc \in {"evaluated", "asking", "exited", "threw:report"}

Absent_(e, key) == EnvGet(e, key).t = "null"

\* The positions of `names` whose variable satisfies `test` in e, and the
\* rank of such a position among them.
Hits(names, e, test(_, _)) == {i \in DOMAIN names : test(e, names[i])}
Rank(hits, i) == Cardinality({j \in hits : j <= i})

PresentIn(e, key) == ~Absent_(e, key)

\* C3: missingRequired lists the names of config.required that are absent
\* from the environment (a variable set to the empty string is present),
\* foundExcluded the names of config.excluded that are present, each with its
\* value, both in the order of the configuration.
C3_PolicyCheck ==
    Evaluated =>
        LET required == result.config.required.v
            excluded == result.config.excluded.v
            miss == Hits(required, env, Absent_)
            found == Hits(excluded, env, PresentIn)
        IN  /\ Len(missingRequired) = Cardinality(miss)
            /\ \A i \in miss : missingRequired[Rank(miss, i)] = [name |-> required[i]]
            /\ Len(foundExcluded) = Cardinality(found)
            /\ \A i \in found :
                  foundExcluded[Rank(found, i)] =
                      [name |-> excluded[i], value |-> EnvGet(env, excluded[i]).v]

\* A is set to the empty string and B is unset: only B is missing; C is found.
C3_Witness ==
    /\ pc = "evaluated"
    /\ result.config.required = Arr(<<"A", "B">>)
    /\ env["A"] = Str("") /\ env["B"] = Null /\ env["C"] = Str("1")
    /\ missingRequired = <<[name |-> "B"]>>
    /\ foundExcluded = <<[name |-> "C", value |-> "1"]>>

Finished == pc \in {"exited", "threw:report"}

\* C4 as stated: with both lists empty the process exits 0 without reading
\* standard input; otherwise the question is asked and the process exits 0
\* only if the input equals config.translations.yes, and 1 for any other.
C4_AsStated ==
    Finished =>
        IF missingRequired = <<>> /\ foundExcluded = <<>>
        THEN exitCode = 0 /\ ~asked /\ answer = NoLine
        ELSE /\ asked
             /\ exitCode = (IF AnswerAccepted(answer, result.config) THEN 0 ELSE 1)

\* C9 as stated: the answer is trimmed and then compared, case-sensitively,
\* with config.translations.yes.
C9_AsStated ==
    (pc = "exited" /\ asked) =>
        exitCode = (IF StrictEquals(Trim(answer), result.config.translations.v.yes)
                    THEN 0 ELSE 1)

\* C9, amended: the answer is compared as it was read, without trimming and
\* case-sensitively, with config.translations.yes: the process exits 0 for
\* exactly that string, and 1 for an answer that differs from it in letter
\* case or only by leading or trailing whitespace.
C9_ExactComparison ==
    (pc = "exited" /\ asked) =>
        LET yes == result.config.translations.v.yes IN
        /\ (exitCode = 0) = (answer = Line(0, yes.v, 0))
        /\ (exitCode = 1) = (answer # Line(0, yes.v, 0))

\* " y" was answered where "y" is the affirmative string: status 1.
C9_Witness ==
    /\ pc = "exited" /\ asked
    /\ result.config.translations.v.yes = Str("y")
    /\ answer = Line(1, "y", 0)
    /\ exitCode = 1

AfterDotenvStep == pc \in {"envReady", "evaluated", "asking", "exited", "threw:report"}

\* C10 as stated: the load is skipped exactly when config.dotenv is false,
\* and performed for every other configured value.
C10_AsStated ==
    AfterDotenvStep => (loaded = (result.config.dotenv # Bool(FALSE)))

\* The variables that only the dotenv file at config.dotenv defines.
OnlyInFile ==
    LET path == result.config.dotenv.v IN
    IF path \in DOMAIN envFiles /\ envFiles[path].exists
    THEN {n \in DOMAIN envFiles[path].vars : Absent_(env0, n)}
    ELSE {}

\* C10, amended: the load is skipped exactly when config.dotenv is falsy
\* (false, null or the empty string); for every other value it is attempted
\* before the lists are evaluated: a string is resolved against the root and
\* the variables defined only in that file count as present in the check,
\* and a truthy value that is no string makes the path resolution throw.
C10_DotenvBeforeCheck ==
    /\ AfterDotenvStep =>
          /\ loaded = Truthy(result.config.dotenv)
          /\ loaded =>
                \A n \in OnlyInFile : env[n] = Str(envFiles[result.config.dotenv.v].vars[n])
          /\ ~loaded => env = env0
    /\ (Evaluated /\ loaded) =>
          \A n \in OnlyInFile :
              /\ \A i \in DOMAIN missingRequired : missingRequired[i].name # n
              /\ (\E j \in DOMAIN result.config.excluded.v : result.config.excluded.v[j] = n)
                    => \E i \in DOMAIN foundExcluded : foundExcluded[i].name = n
    /\ pc = "threw:dotenv" =>
          ~loaded /\ Truthy(result.config.dotenv) /\ result.config.dotenv.t # "str"

\* B is required and defined only in config/.env, which the configuration
\* names: nothing is missing.
C10_Witness ==
    /\ pc = "evaluated"
    /\ result.config.dotenv = Str("config/.env")
    /\ env0["B"] = Null
    /\ envFiles["config/.env"] = EnvFile([B |-> "2"])
    /\ result.config.required = Arr(<<"B">>)
    /\ loaded
    /\ missingRequired = <<>>

====
